---- MODULE Spec2Model ----
(***************************************************************************)
(* State-machine model of src/src/theme-provider.tsx, which holds two      *)
(* ThemeProvider implementations:                                          *)
(*   impl = 1 : lines  81-168 (forcedTheme, cookie mirror, systemTheme)    *)
(*   impl = 2 : lines 202-371 (enableSystem, view transitions)             *)
(* React state is modelled as of the last committed render.  A handler is  *)
(* one action: its setState calls, its DOM writes, its storage writes and  *)
(* the re-render with the effect re-subscription that follows it.          *)
(***************************************************************************)
EXTENDS Integers, Sequences, FiniteSets, TLC

VARIABLES
    cfg,            \* props of the provider and capabilities of the host
    ambient,        \* window.matchMedia(MEDIA_QUERY).matches as "dark"/"light"
    storage,        \* localStorage[storageKey], "none" when absent
    cookie,         \* document.cookie entry under cookieName, "none" when absent
    phase,          \* "rendered" | "mounted" | "ready" | "crashed"
    theme,          \* useState<Theme>
    systemTheme,    \* useState<ResolvedTheme|undefined> (impl 1), "none" in impl 2
    resolvedTheme,  \* useState<ResolvedTheme>
    listener,       \* the `theme` closed over by the registered handleChange, or "none"
    mediaQuery,     \* registrations held by the MediaQueryList, per mechanism
    dom,            \* document.documentElement, document.head, pending callbacks
    last,           \* history: what the last step did
    prev,           \* history: the step before the last one
    lastApplied,    \* history: argument of the most recent applyTheme call
    reveal          \* click origin, viewport and end radius of a circular reveal

vars == <<cfg, ambient, storage, cookie, phase, theme, systemTheme,
          resolvedTheme, listener, mediaQuery, dom, last, prev, lastApplied,
          reveal>>

----------------------------------------------------------------------------
(* Bounds *)

\* most removal timers of suppression style rules pending at once
MaxTimers == 2

\* most view-transition update callbacks pending at once
MaxInFlight == 2

\* click coordinates range over -2 .. MaxCoord
MaxCoord == 4

\* window.innerWidth and window.innerHeight range over 0 .. MaxSide
MaxSide == 3

----------------------------------------------------------------------------
(* Types and inputs *)

Theme == {"light", "dark", "system"}

ResolvedTheme == {"light", "dark"}

\* what an external writer may have left under storageKey before the first load
StoredValues == {"none", "purple"}

\* "ok": storage works; "denied": every localStorage access throws;
\* "quota": reads work, setItem throws; "server": typeof window === "undefined"
Envs == {"ok", "denied", "quota", "server"}

Configs1 ==
    [impl : {1},
     defaultTheme : {"dark", "system"},
     forcedTheme : {"none", "dark", "system"},
     attribute : {"class", "data-theme"},
     disableTransitionOnChange : BOOLEAN,
     enableCookieStorage : BOOLEAN,
     enableSystem : {TRUE},
     enableViewTransitions : {FALSE},
     hasViewTransition : {FALSE},
     legacyMediaQuery : BOOLEAN,
     env : Envs]

Configs2 ==
    [impl : {2},
     defaultTheme : {"dark", "system"},
     forcedTheme : {"none"},
     attribute : {"class", "data-theme"},
     disableTransitionOnChange : BOOLEAN,
     enableCookieStorage : {FALSE},
     enableSystem : BOOLEAN,
     enableViewTransitions : BOOLEAN,
     hasViewTransition : BOOLEAN,
     legacyMediaQuery : BOOLEAN,
     env : Envs]

Other(a) == IF a = "dark" THEN "light" ELSE "dark"

HasWindow == cfg.env # "server"

----------------------------------------------------------------------------
(* Pure helpers *)

GetSystemTheme1(c, amb) == IF c.env = "server" THEN "dark" ELSE amb

GetSystemTheme2(c, amb) == IF c.env = "server" THEN "light" ELSE amb

\* useState initializer of impl 2: localStorage.getItem(storageKey) || defaultTheme
InitialTheme2(c, sto) ==
    IF c.env = "server" \/ sto = "none" THEN c.defaultTheme ELSE sto

GetStoredTheme(c, sto) ==
    IF c.env = "server" THEN c.defaultTheme
    ELSE IF c.env = "denied" THEN c.defaultTheme
    ELSE IF sto \in Theme THEN sto
    ELSE c.defaultTheme

SetItemDropped(c, sto, value) == sto

SetItem(c, sto, value) == IF c.env = "ok" THEN value ELSE sto

\* try { localStorage.setItem(...) } catch {} : the exception does not escape
SetItemUncaught == FALSE

SetItemCaught == TRUE

\* setItem throws and the exception escapes setTheme
SetItemThrows(c) == c.env \in {"denied", "quota"} /\ ~SetItemCaught

SetCookieNever(c, old, value) == old

\* if (enableCookieStorage) setCookie(cookieName, value)
SetCookie(c, old, value) == IF c.enableCookieStorage THEN value ELSE old

LockedNever == FALSE

Locked == cfg.forcedTheme # "none"

\* const newSystemTheme = e.matches ? "dark" : "light"
NewSystemThemeInverted(matches) == IF matches THEN "light" ELSE "dark"

NewSystemTheme(matches) == IF matches THEN "dark" ELSE "light"

\* MediaQueryListEvent.matches of (prefers-color-scheme: dark)
Matches(amb) == amb = "dark"

FollowsAmbientAlways(t) == TRUE

FollowsAmbient(t) == t = "system"

ResolveTheme2(c, amb, currentTheme) ==
    IF currentTheme = "system" THEN GetSystemTheme2(c, amb) ELSE currentTheme

Resolve1(current, sysState, c, amb) ==
    IF current = "system"
    THEN (IF sysState # "none" THEN sysState ELSE GetSystemTheme1(c, amb))
    ELSE current

----------------------------------------------------------------------------
(* The ambient-signal subscription *)

NoListeners == [events |-> 0, legacy |-> 0]

\* the MediaQueryList of the host has addEventListener / removeEventListener
HasAddEventListener == ~cfg.legacyMediaQuery

AddListener1(mq) == [mq EXCEPT !.events = @ + 1]

RemoveListener1(mq) == [mq EXCEPT !.events = @ - 1]

AddListener2(mq) ==
    IF HasAddEventListener THEN [mq EXCEPT !.events = @ + 1]
    ELSE [mq EXCEPT !.legacy = @ + 1]

RemoveListener2Forgotten(mq) == mq

RemoveListener2(mq) ==
    IF HasAddEventListener THEN [mq EXCEPT !.events = @ - 1]
    ELSE [mq EXCEPT !.legacy = @ - 1]

\* cleanup of the previous run of the subscription effect, if it subscribed
Cleanup1(mq) == IF listener # "none" THEN RemoveListener1(mq) ELSE mq

Cleanup2(mq) == IF listener # "none" THEN RemoveListener2(mq) ELSE mq

----------------------------------------------------------------------------
(* The render surface *)

EmptyDom ==
    [classList |-> {}, dataAttr |-> "none", colorScheme |-> "none",
     headCss |-> 0, timers |-> 0, transitions |-> <<>>, readyFor |-> "none"]

SuppressTransitionsNoTimer(d) ==
    [d EXCEPT !.headCss = @ + 1]

SuppressTransitions(d) ==
    [d EXCEPT !.headCss = @ + 1, !.timers = @ + 1]

ApplyTheme1(d, t, attribute, disableTransition) ==
    LET d1 == IF disableTransition THEN SuppressTransitions(d) ELSE d
    IN  IF attribute = "class"
        THEN [d1 EXCEPT !.classList = (@ \ {"light", "dark"}) \cup {t}]
        ELSE [d1 EXCEPT !.dataAttr = t]

UpdateTheme(d, newTheme) ==
    LET cleared == d.classList \ {"light", "dark"}
    IN  IF cfg.attribute = "class"
        THEN [d EXCEPT !.classList = cleared \cup {newTheme},
                       !.colorScheme = newTheme]
        ELSE [d EXCEPT !.classList = cleared,
                       !.dataAttr = newTheme,
                       !.colorScheme = newTheme]

Animated2 == cfg.enableViewTransitions /\ cfg.hasViewTransition

\* the reveal is started at once instead of in transition.ready.then
StartViewTransitionEager(d, newTheme, click) ==
    [d EXCEPT !.transitions = Append(@, [newTheme |-> newTheme, click |-> click]),
              !.readyFor = IF click THEN newTheme ELSE "none"]

\* The update callback is queued.  A transition started while another is
\* active makes the host skip the older one: its update callback still runs,
\* its ready promise rejects, so its reveal never starts.
StartViewTransition(d, newTheme, click) ==
    [d EXCEPT !.transitions = Append(@, [newTheme |-> newTheme, click |-> click]),
              !.readyFor = "none"]

ApplyTheme2Mixed(d, newTheme, click) ==
    IF Animated2 /\ click
    THEN StartViewTransition(d, newTheme, click)
    ELSE UpdateTheme(IF cfg.disableTransitionOnChange
                     THEN SuppressTransitions(d) ELSE d, newTheme)

ApplyTheme2(d, newTheme, click) ==
    IF ~Animated2
    THEN UpdateTheme(IF cfg.disableTransitionOnChange
                     THEN SuppressTransitions(d) ELSE d, newTheme)
    ELSE StartViewTransition(d, newTheme, click)

\* room for one more applyTheme within the bounds
Room1(disableTransition) == disableTransition => dom.timers < MaxTimers

Room2 ==
    IF Animated2 THEN Len(dom.transitions) < MaxInFlight
    ELSE cfg.disableTransitionOnChange => dom.timers < MaxTimers

\* the root carries the marker of value v and no competing light/dark class
MarkerIs(v) ==
    IF cfg.attribute = "class"
    THEN v \in dom.classList /\ dom.classList \cap {"light", "dark"} \subseteq {v}
    ELSE dom.dataAttr = v

\* themes exposed by impl 2
Themes2 ==
    IF cfg.enableSystem THEN <<"light", "dark", "system">> ELSE <<"light", "dark">>

Declared == IF cfg.forcedTheme # "none" THEN cfg.forcedTheme ELSE theme

----------------------------------------------------------------------------
(* First render *)

Render1(c, amb, sto) ==
    LET current == IF c.forcedTheme # "none" THEN c.forcedTheme
                   ELSE GetStoredTheme(c, sto)
    IN  [phase |-> "rendered",
         theme |-> current,
         systemTheme |-> GetSystemTheme1(c, amb),
         resolvedTheme |-> IF current = "system" THEN GetSystemTheme1(c, amb)
                           ELSE current]

Render2(c, amb, sto) ==
    IF c.env = "denied"
    THEN [phase |-> "crashed", theme |-> "none", systemTheme |-> "none",
          resolvedTheme |-> "none"]
    ELSE [phase |-> "rendered",
          theme |-> InitialTheme2(c, sto),
          systemTheme |-> "none",
          resolvedTheme |-> "light"]

Render(c, amb, sto) == IF c.impl = 1 THEN Render1(c, amb, sto) ELSE Render2(c, amb, sto)

\* no circular reveal has been computed
NoReveal == [x |-> 0, y |-> 0, w |-> 0, h |-> 0, endRadiusSq |-> 0 - 1]

Step(op, arg, applied, transition) ==
    [op |-> op, arg |-> arg, applied |-> applied, transition |-> transition,
     threw |-> FALSE]

NoStep == [op |-> "none", arg |-> "none"]

Init ==
    /\ cfg \in Configs1 \cup Configs2
    /\ ambient \in ResolvedTheme
    /\ storage \in StoredValues
    /\ cookie = "none"
    /\ LET r == Render(cfg, ambient, storage)
       IN  /\ phase = r.phase
           /\ theme = r.theme
           /\ systemTheme = r.systemTheme
           /\ resolvedTheme = r.resolvedTheme
    /\ listener = "none"
    /\ mediaQuery = NoListeners
    /\ dom = EmptyDom
    /\ last = Step("render", "none", FALSE, FALSE)
    /\ prev = NoStep
    /\ lastApplied = "none"
    /\ reveal = NoReveal

Record(op, arg, applied, transition) ==
    /\ last' = Step(op, arg, applied, transition)
    /\ prev' = [op |-> last.op, arg |-> last.arg]

\* the step ended by an exception that nothing caught
RecordThrow(op, arg, applied, transition) ==
    /\ last' = [Step(op, arg, applied, transition) EXCEPT !.threw = TRUE]
    /\ prev' = [op |-> last.op, arg |-> last.arg]

----------------------------------------------------------------------------
(* Implementation 1 *)

Mount1 ==
    /\ cfg.impl = 1 /\ phase = "rendered" /\ HasWindow
    /\ HasAddEventListener
    /\ LET current == IF cfg.forcedTheme # "none" THEN cfg.forcedTheme ELSE theme
           resolved == Resolve1(current, systemTheme, cfg, ambient)
       IN  /\ resolvedTheme' = resolved
           /\ dom' = ApplyTheme1(dom, resolved, cfg.attribute, FALSE)
           /\ cookie' = SetCookie(cfg, cookie, resolved)
           /\ lastApplied' = resolved
    /\ listener' = theme
    /\ mediaQuery' = AddListener1(mediaQuery)
    /\ phase' = "ready"
    /\ Record("mount", "none", TRUE, FALSE)
    /\ UNCHANGED <<reveal, cfg, ambient, storage, theme, systemTheme>>

\* mediaQuery.addEventListener is not a function: the subscription effect
\* throws, the mount effect after it does not run, the tree is unmounted
MountThrows1 ==
    /\ cfg.impl = 1 /\ phase = "rendered" /\ HasWindow
    /\ ~HasAddEventListener
    /\ phase' = "crashed"
    /\ RecordThrow("mount", "none", FALSE, FALSE)
    /\ UNCHANGED <<reveal, cfg, ambient, storage, cookie, theme, systemTheme,
                   resolvedTheme, listener, mediaQuery, dom, lastApplied>>

SetTheme1(newTheme) ==
    /\ cfg.impl = 1 /\ phase = "ready"
    /\ IF Locked
       THEN /\ Record("setTheme", newTheme, FALSE, FALSE)
            /\ UNCHANGED <<reveal, cfg, ambient, storage, cookie, phase, theme, systemTheme,
                           resolvedTheme, listener, mediaQuery, dom, lastApplied>>
       ELSE /\ Room1(cfg.disableTransitionOnChange)
            /\ theme' = newTheme
            /\ LET resolved == Resolve1(newTheme, systemTheme, cfg, ambient)
               IN  /\ resolvedTheme' = resolved
                   /\ dom' = ApplyTheme1(dom, resolved, cfg.attribute,
                                         cfg.disableTransitionOnChange)
                   /\ cookie' = IF SetItemThrows(cfg) THEN cookie
                                ELSE SetCookie(cfg, cookie, resolved)
                   /\ lastApplied' = resolved
            /\ storage' = SetItem(cfg, storage, newTheme)
            /\ listener' = newTheme
            /\ mediaQuery' = AddListener1(Cleanup1(mediaQuery))
            /\ IF SetItemThrows(cfg)
               THEN RecordThrow("setTheme", newTheme, TRUE, FALSE)
               ELSE Record("setTheme", newTheme, TRUE, FALSE)
            /\ UNCHANGED <<reveal, cfg, ambient, phase, systemTheme>>

HandleChange1 ==
    /\ cfg.impl = 1 /\ HasWindow /\ phase # "crashed"
    /\ ambient' = Other(ambient)
    /\ IF listener = "none"
       THEN /\ Record("ambient", "none", FALSE, FALSE)
            /\ UNCHANGED <<systemTheme, resolvedTheme, dom, cookie, lastApplied>>
       ELSE /\ systemTheme' = NewSystemTheme(Matches(ambient'))
            /\ IF FollowsAmbient(listener)
               THEN /\ Room1(cfg.disableTransitionOnChange)
                    /\ resolvedTheme' = NewSystemTheme(Matches(ambient'))
                    /\ dom' = ApplyTheme1(dom, NewSystemTheme(Matches(ambient')),
                                          cfg.attribute, cfg.disableTransitionOnChange)
                    /\ cookie' = SetCookie(cfg, cookie,
                                           NewSystemTheme(Matches(ambient')))
                    /\ lastApplied' = NewSystemTheme(Matches(ambient'))
                    /\ Record("ambient", "none", TRUE, FALSE)
               ELSE /\ Record("ambient", "none", FALSE, FALSE)
                    /\ UNCHANGED <<resolvedTheme, dom, cookie, lastApplied>>
    /\ UNCHANGED <<reveal, cfg, storage, phase, theme, listener, mediaQuery>>

----------------------------------------------------------------------------
(* Implementation 2 *)

Mount2 ==
    /\ cfg.impl = 2 /\ phase = "rendered" /\ HasWindow
    /\ LET resolved == ResolveTheme2(cfg, ambient, theme)
       IN  /\ resolvedTheme' = resolved
           /\ dom' = ApplyTheme2(dom, resolved, FALSE)
           /\ lastApplied' = resolved
    /\ phase' = "mounted"
    /\ Record("mount", "none", TRUE, Animated2)
    /\ UNCHANGED <<reveal, cfg, ambient, storage, cookie, theme, systemTheme, listener, mediaQuery>>

Subscribe2 ==
    /\ cfg.impl = 2 /\ phase = "mounted"
    /\ listener' = IF cfg.enableSystem THEN theme ELSE "none"
    /\ mediaQuery' = IF cfg.enableSystem THEN AddListener2(mediaQuery) ELSE mediaQuery
    /\ phase' = "ready"
    /\ Record("subscribe", "none", FALSE, FALSE)
    /\ UNCHANGED <<reveal, cfg, ambient, storage, cookie, theme, systemTheme,
                   resolvedTheme, dom, lastApplied>>

SetTheme2(newTheme, click) ==
    /\ cfg.impl = 2 /\ phase = "ready"
    /\ Room2
    /\ theme' = newTheme
    /\ storage' = SetItem(cfg, storage, newTheme)
    /\ IF SetItemThrows(cfg)
       THEN /\ RecordThrow("setTheme", newTheme, FALSE, FALSE)
            /\ UNCHANGED <<resolvedTheme, dom, lastApplied>>
       ELSE LET resolved == ResolveTheme2(cfg, ambient, newTheme)
            IN  /\ resolvedTheme' = resolved
                /\ dom' = ApplyTheme2(dom, resolved, click)
                /\ lastApplied' = resolved
                /\ Record("setTheme", newTheme, TRUE, Animated2)
    /\ listener' = IF cfg.enableSystem THEN newTheme ELSE "none"
    /\ mediaQuery' = IF cfg.enableSystem THEN AddListener2(Cleanup2(mediaQuery))
                     ELSE mediaQuery
    /\ UNCHANGED <<reveal, cfg, ambient, cookie, phase, systemTheme>>

HandleChange2 ==
    /\ cfg.impl = 2 /\ HasWindow /\ phase # "crashed"
    /\ ambient' = Other(ambient)
    /\ IF listener # "none" /\ FollowsAmbient(listener)
       THEN /\ Room2
            /\ resolvedTheme' = GetSystemTheme2(cfg, ambient')
            /\ dom' = ApplyTheme2(dom, GetSystemTheme2(cfg, ambient'), FALSE)
            /\ lastApplied' = GetSystemTheme2(cfg, ambient')
            /\ Record("ambient", "none", TRUE, Animated2)
       ELSE /\ Record("ambient", "none", FALSE, FALSE)
            /\ UNCHANGED <<resolvedTheme, dom, lastApplied>>
    /\ UNCHANGED <<reveal, cfg, storage, cookie, phase, theme, systemTheme, listener, mediaQuery>>

\* the host runs the oldest pending update callback of startViewTransition
UpdateCallback ==
    /\ dom.transitions # <<>>
    /\ LET cb == Head(dom.transitions)
           live == cb.click /\ Tail(dom.transitions) = <<>>
       IN  /\ dom' = UpdateTheme([dom EXCEPT !.transitions = Tail(@),
                                             !.readyFor = IF live THEN cb.newTheme
                                                          ELSE @],
                                 cb.newTheme)
           /\ Record("callback", cb.newTheme, FALSE, FALSE)
    /\ UNCHANGED <<reveal, cfg, ambient, storage, cookie, phase, theme, systemTheme,
                   resolvedTheme, listener, mediaQuery, lastApplied>>

\* transition.ready.then(() => document.documentElement.animate(...))
TransitionReady ==
    /\ dom.readyFor # "none"
    /\ dom' = [dom EXCEPT !.readyFor = "none"]
    /\ Record("animate", dom.readyFor, FALSE, FALSE)
    /\ UNCHANGED <<reveal, cfg, ambient, storage, cookie, phase, theme, systemTheme,
                   resolvedTheme, listener, mediaQuery, lastApplied>>

----------------------------------------------------------------------------
(* Shared steps *)

\* setTimeout(() => document.head.removeChild(css), 1)
\* Timers fire in the order they were set.  The style elements that left the
\* head are those of the oldest timers, and removeChild of a node that is not
\* a child throws.
RemoveCss ==
    /\ dom.timers > 0
    /\ IF dom.timers > dom.headCss
       THEN /\ dom' = [dom EXCEPT !.timers = @ - 1]
            /\ RecordThrow("timer", "none", FALSE, FALSE)
       ELSE /\ dom' = [dom EXCEPT !.timers = @ - 1, !.headCss = @ - 1]
            /\ Record("timer", "none", FALSE, FALSE)
    /\ UNCHANGED <<reveal, cfg, ambient, storage, cookie, phase, theme, systemTheme,
                   resolvedTheme, listener, mediaQuery, lastApplied>>

\* the provider is unmounted: the cleanup of the subscription effect runs
Unmount ==
    /\ phase = "ready"
    /\ phase' = "unmounted"
    /\ listener' = "none"
    /\ mediaQuery' = IF cfg.impl = 1 THEN Cleanup1(mediaQuery) ELSE Cleanup2(mediaQuery)
    /\ Record("unmount", "none", FALSE, FALSE)
    /\ UNCHANGED <<reveal, cfg, ambient, storage, cookie, theme, systemTheme,
                   resolvedTheme, dom, lastApplied>>

\* the page empties document.head while removal timers are pending
ClearHead ==
    /\ dom.headCss > 0
    /\ dom' = [dom EXCEPT !.headCss = 0]
    /\ Record("clearHead", "none", FALSE, FALSE)
    /\ UNCHANGED <<reveal, cfg, ambient, storage, cookie, phase, theme, systemTheme,
                   resolvedTheme, listener, mediaQuery, lastApplied>>

\* the page is loaded again: a fresh provider over the same storage and cookie
Reload ==
    /\ phase \in {"ready", "unmounted"}
    /\ LET r == Render(cfg, ambient, storage)
       IN  /\ phase' = r.phase
           /\ theme' = r.theme
           /\ systemTheme' = r.systemTheme
           /\ resolvedTheme' = r.resolvedTheme
    /\ listener' = "none"
    /\ mediaQuery' = NoListeners
    /\ dom' = EmptyDom
    /\ last' = Step("reload", "none", FALSE, FALSE)
    /\ prev' = NoStep
    /\ lastApplied' = "none"
    /\ UNCHANGED <<reveal, cfg, ambient, storage, cookie>>

SetTheme ==
    \E newTheme \in Theme :
        \/ SetTheme1(newTheme)
        \/ \E click \in BOOLEAN : SetTheme2(newTheme, click)

Next ==
    \/ Mount1
    \/ MountThrows1
    \/ HandleChange1
    \/ Mount2
    \/ Subscribe2
    \/ HandleChange2
    \/ SetTheme
    \/ UpdateCallback
    \/ TransitionReady
    \/ RemoveCss
    \/ ClearHead
    \/ Unmount
    \/ Reload

Spec == Init /\ [][Next]_vars

----------------------------------------------------------------------------
(* The end radius of the circular reveal, as a function of its inputs *)

Max(a, b) == IF a >= b THEN a ELSE b

EndRadiusSqNoMax(x, y, w, h) == x * x + y * y

\* the square of Math.hypot(Math.max(x, w - x), Math.max(y, h - y))
EndRadiusSq(x, y, w, h) ==
    Max(x, w - x) * Max(x, w - x) + Max(y, h - y) * Max(y, h - y)

Coords == (0 - 2) .. MaxCoord

Sides == 0 .. MaxSide

RevealCfg ==
    [impl |-> 2, defaultTheme |-> "system", forcedTheme |-> "none",
     attribute |-> "class", disableTransitionOnChange |-> FALSE,
     enableCookieStorage |-> FALSE, enableSystem |-> TRUE,
     enableViewTransitions |-> TRUE, hasViewTransition |-> TRUE,
     legacyMediaQuery |-> FALSE, env |-> "ok"]

InitReveal ==
    /\ cfg = RevealCfg
    /\ ambient = "light"
    /\ storage = "none"
    /\ cookie = "none"
    /\ LET r == Render(cfg, ambient, storage)
       IN  /\ phase = r.phase
           /\ theme = r.theme
           /\ systemTheme = r.systemTheme
           /\ resolvedTheme = r.resolvedTheme
    /\ listener = "none"
    /\ mediaQuery = NoListeners
    /\ dom = EmptyDom
    /\ last = Step("render", "none", FALSE, FALSE)
    /\ prev = NoStep
    /\ lastApplied = "none"
    /\ reveal \in [x : Coords, y : Coords, w : Sides, h : Sides, endRadiusSq : {0 - 1}]

ComputeEndRadius ==
    /\ reveal.endRadiusSq < 0
    /\ reveal' = [reveal EXCEPT
                    !.endRadiusSq = EndRadiusSq(reveal.x, reveal.y, reveal.w, reveal.h)]
    /\ UNCHANGED <<cfg, ambient, storage, cookie, phase, theme, systemTheme,
                   resolvedTheme, listener, mediaQuery, dom, last, prev, lastApplied>>

NextReveal == ComputeEndRadius

SpecReveal == InitReveal /\ [][NextReveal]_vars

----------------------------------------------------------------------------
(* Claims *)

\* C1: with no forced override, whenever the declared theme is 'light' or
\* 'dark' the resolved theme exposed to consumers equals the declared theme,
\* in every reachable state from the initial render onward.
C1_ResolvedEqualsDeclared ==
    (phase # "crashed" /\ cfg.forcedTheme = "none" /\ theme \in ResolvedTheme)
        => resolvedTheme = theme

\* C2: once the provider is mounted and subscribed in a browser, every change
\* of the ambient signal made while the declared theme is 'system' invokes
\* the applier and leaves the resolved theme equal to the new ambient value,
\* and every effective setTheme('system') call leaves the resolved theme
\* equal to the ambient value at that moment.
C2_SystemFollowsAmbient ==
    [][(HasWindow /\ phase = "ready" /\ phase' = "ready")
          => /\ (ambient' # ambient /\ Declared = "system")
                   => (resolvedTheme' = ambient' /\ last'.applied)
             /\ (last'.op = "setTheme" /\ last'.arg = "system" /\ last'.applied)
                   => resolvedTheme' = ambient']_vars

C3_SetThemeStep == last'.op = "setTheme"

C3_SetThemeFrame ==
    /\ theme' = theme
    /\ resolvedTheme' = resolvedTheme
    /\ dom'.classList = dom.classList
    /\ dom'.dataAttr = dom.dataAttr
    /\ storage' = storage
    /\ cookie' = cookie

\* C3 as stated: in impl 1 with forcedTheme configured, the resolved theme
\* equals the forced value after every step, and a setTheme step leaves the
\* declared theme, the resolved theme, the root marker, the localStorage
\* entry and the cookie unchanged.
C3_ForcedAsStated ==
    [][(cfg.impl = 1 /\ cfg.forcedTheme # "none")
          => /\ resolvedTheme' = cfg.forcedTheme
             /\ (C3_SetThemeStep => C3_SetThemeFrame)]_vars

\* C3 amended: in impl 1 with forcedTheme 'light' or 'dark', the resolved
\* theme equals the forced value in every reachable state; and with any
\* forcedTheme ('system' included) a setTheme step leaves the declared theme,
\* the resolved theme, the root marker, the localStorage entry and the
\* cookie unchanged.
C3_ForcedLocks ==
    /\ []((cfg.impl = 1 /\ cfg.forcedTheme \in ResolvedTheme)
             => (resolvedTheme = cfg.forcedTheme /\ Declared = cfg.forcedTheme))
    /\ [][(cfg.impl = 1 /\ cfg.forcedTheme # "none" /\ C3_SetThemeStep)
             => C3_SetThemeFrame]_vars

C3_Witness ==
    /\ cfg.impl = 1 /\ cfg.forcedTheme = "dark" /\ cfg.defaultTheme = "system"
    /\ last.op = "setTheme" /\ last.arg = "light"
    /\ prev.op = "ambient"
    /\ resolvedTheme = "dark" /\ MarkerIs("dark")

\* C4: with no forced override and working storage, after a setTheme call
\* the persisted entry equals the declared theme just set, and whenever a
\* valid theme is persisted the provider (freshly initialised or not) holds
\* it as its declared theme.
C4_Durable ==
    (cfg.env = "ok" /\ cfg.forcedTheme = "none" /\ phase # "crashed")
        => /\ (last.op = "setTheme" => (storage = last.arg /\ theme = last.arg))
           /\ (storage \in Theme => theme = storage)

C4_Witness ==
    /\ cfg.env = "ok" /\ cfg.forcedTheme = "none"
    /\ last.op = "reload"
    /\ storage \in Theme /\ storage # cfg.defaultTheme
    /\ theme = storage

\* C5: the declared theme loaded at initialisation is the stored value when
\* that is 'light', 'dark' or 'system' and the configured default otherwise,
\* and the declared theme is a member of the enumeration in every state.
C5_LoadValidates ==
    (phase # "crashed" /\ cfg.forcedTheme = "none")
        => /\ theme \in Theme
           /\ (last.op \in {"render", "reload"}
                 => theme = (IF cfg.env \in {"ok", "quota"} /\ storage \in Theme
                             THEN storage ELSE cfg.defaultTheme))

\* C6: the second of two consecutive setTheme calls with the same argument
\* does not invoke the surface applier.
C6_SecondCallNotApplied ==
    (last.op = "setTheme" /\ prev.op = "setTheme" /\ prev.arg = last.arg)
        => ~last.applied

\* C7: an ambient change delivered while the declared theme is 'light' or
\* 'dark' changes neither the resolved theme nor the root marker nor the
\* cookie, and invokes no applyTheme.
C7_AmbientIgnoredWhenBinary ==
    [][(ambient' # ambient /\ theme \in ResolvedTheme)
          => /\ resolvedTheme' = resolvedTheme
             /\ dom' = dom
             /\ cookie' = cookie
             /\ ~last'.applied]_vars

C7_Witness ==
    /\ last.op = "ambient" /\ prev.op = "setTheme"
    /\ listener \in ResolvedTheme /\ theme = listener
    /\ ambient # resolvedTheme

\* C8: the application made by the mount effect starts no view transition
\* and leaves the root marker equal to the resolved theme.
C8_FirstApplicationNotAnimated ==
    last.op = "mount" => (~last.transition /\ MarkerIs(resolvedTheme))

\* C9: whenever no update callback is pending, the root marker is the one
\* of the most recently requested application (last write wins) and equals
\* the resolved theme exposed to consumers.
C9_LastWriteWins ==
    (lastApplied # "none" /\ dom.transitions = <<>>)
        => (MarkerIs(lastApplied) /\ resolvedTheme = lastApplied)

C9_Witness ==
    /\ last.op = "callback" /\ prev.op = "callback" /\ prev.arg # last.arg
    /\ dom.transitions = <<>>
    /\ MarkerIs(last.arg) /\ resolvedTheme = last.arg

\* C10: when storage access fails or there is no window, initialisation
\* completes and the declared theme is the configured default.
C10_LoadNeverThrows ==
    (cfg.env \in {"denied", "server"} /\ cfg.forcedTheme = "none")
        => (phase # "crashed" /\ theme = cfg.defaultTheme)

\* C11: when the localStorage write of setTheme fails, setTheme raises no
\* error and the declared theme, the resolved theme and the root marker are
\* updated as for a successful write: declared is the argument, resolved is
\* its resolution, the applier is invoked with it, and on the synchronous
\* path the marker is already the resolved value.
C11_SaveFailureSwallowed ==
    (cfg.env \in {"denied", "quota"} /\ last.op = "setTheme" /\ ~Locked)
        => /\ ~last.threw
           /\ theme = last.arg
           /\ last.applied
           /\ resolvedTheme = lastApplied
           /\ (last.arg \in ResolvedTheme => resolvedTheme = last.arg)
           /\ (last.arg = "system" /\ cfg.impl = 2 => resolvedTheme = ambient)
           /\ (~Animated2 => MarkerIs(resolvedTheme))
           /\ (Animated2 => dom.transitions # <<>>
                 /\ dom.transitions[Len(dom.transitions)].newTheme = resolvedTheme)

C11_Witness ==
    /\ cfg.env = "quota" /\ cfg.impl = 2
    /\ last.op = "setTheme" /\ last.arg = "dark"
    /\ storage # "dark" /\ theme = "dark" /\ resolvedTheme = "dark"

\* C12: in impl 1 with enableCookieStorage, once the mount effect has run
\* the cookie equals the resolved theme exposed to consumers and the root
\* marker, after every setTheme call and ambient change.
C12_CookieMirrorsResolved ==
    (cfg.impl = 1 /\ cfg.enableCookieStorage /\ phase = "ready")
        => (cookie = resolvedTheme /\ MarkerIs(cookie))

C12_Witness ==
    /\ cfg.impl = 1 /\ cfg.enableCookieStorage /\ phase = "ready"
    /\ last.op = "ambient" /\ last.applied /\ prev.op = "setTheme"
    /\ cookie = ambient /\ cookie = resolvedTheme

\* C13: after any completed application the root carries exactly one
\* presentation marker, the one of the applied resolved value: in class mode
\* the class list is that single class, in attribute mode the attribute is
\* that value, and in impl 2 root.style.colorScheme is that value too.
C13_ExactlyOneMarker ==
    (lastApplied # "none" /\ dom.transitions = <<>>)
        => /\ (cfg.attribute = "class" => dom.classList = {lastApplied})
           /\ (cfg.attribute # "class" => dom.dataAttr = lastApplied)
           /\ (cfg.impl = 2 => dom.colorScheme = lastApplied)

\* C14: with transition suppression on and the non-animated path taken, a
\* setTheme call leaves the marker written and a no-transition rule with its
\* removal timer installed; no rule is without a pending timer, so once all
\* timers have fired no suppression rule remains.
C14_SuppressionRuleLifetime ==
    /\ (cfg.disableTransitionOnChange /\ ~Animated2
          /\ last.op = "setTheme" /\ last.applied)
         => (MarkerIs(resolvedTheme) /\ dom.headCss >= 1 /\ dom.timers >= 1)
    /\ dom.headCss <= dom.timers
    /\ (dom.timers = 0 => dom.headCss = 0)

C14_Witness ==
    /\ cfg.disableTransitionOnChange /\ ~Animated2
    /\ last.op = "timer" /\ prev.op = "timer" /\ ~last.threw
    /\ dom.timers = 0 /\ dom.headCss = 0
    /\ MarkerIs(resolvedTheme)

\* C15: a removal timer that fires after its style element has left the
\* document head skips the removal and raises no error.
C15_RemovalSkippedAfterTeardown ==
    last.op = "timer" => ~last.threw

C16_Registered == mediaQuery.events + mediaQuery.legacy

\* C16: at most one ambient listener of the provider is registered, through
\* the one mechanism the host offers and never both; a listener is
\* registered exactly while the subscription effect is live, so none before
\* mount, none after unmount, and a re-subscription never leaves two.
C16_SingleSubscription ==
    /\ C16_Registered <= 1
    /\ C16_Registered = (IF listener = "none" THEN 0 ELSE 1)
    /\ (mediaQuery.events > 0 => HasAddEventListener)
    /\ (mediaQuery.legacy > 0 => ~HasAddEventListener)
    /\ (phase \in {"rendered", "mounted", "crashed", "unmounted"}
          => C16_Registered = 0)

C16_Witness ==
    /\ cfg.impl = 2 /\ cfg.legacyMediaQuery /\ phase = "ready"
    /\ last.op = "setTheme" /\ prev.op = "setTheme" /\ prev.arg # last.arg
    /\ mediaQuery = [events |-> 0, legacy |-> 1]
    /\ listener = theme

\* C17: in impl 2 a setTheme call either writes the marker before it returns
\* and starts no transition (view transitions disabled or unavailable), or
\* leaves its mutation to the update callback it has queued; a marker written
\* by an update callback is on the root when the callback ends; and the
\* circular reveal of a call starts only with that call's marker on the root.
C17_MutationBeforeReveal ==
    /\ (cfg.impl = 2 /\ last.op = "setTheme" /\ last.applied)
         => IF Animated2
            THEN /\ last.transition
                 /\ dom.transitions # <<>>
                 /\ dom.transitions[Len(dom.transitions)].newTheme = resolvedTheme
                 /\ dom.readyFor = "none"
            ELSE /\ ~last.transition
                 /\ dom.transitions = <<>>
                 /\ dom.readyFor = "none"
                 /\ MarkerIs(resolvedTheme)
    /\ (last.op = "callback" => MarkerIs(last.arg))
    /\ (dom.readyFor # "none" => MarkerIs(dom.readyFor))
    /\ (last.op = "animate" => (Animated2 /\ MarkerIs(last.arg)))

C17_Witness ==
    /\ cfg.impl = 2 /\ Animated2
    /\ last.op = "animate" /\ prev.op = "callback" /\ prev.arg = last.arg
    /\ MarkerIs(last.arg) /\ resolvedTheme = last.arg

C18_DistSq(x, y, cx, cy) == (x - cx) * (x - cx) + (y - cy) * (y - cy)

C18_FarthestCornerSq(x, y, w, h) ==
    Max(Max(C18_DistSq(x, y, 0, 0), C18_DistSq(x, y, w, 0)),
        Max(C18_DistSq(x, y, 0, h), C18_DistSq(x, y, w, h)))

\* C18: for every click origin and viewport size, the squared end radius
\* computed for the circular reveal equals the largest squared distance from
\* the origin to the four viewport corners, origins outside the viewport
\* included.
C18_EndRadiusReachesFarthestCorner ==
    reveal.endRadiusSq >= 0
        => reveal.endRadiusSq
             = C18_FarthestCornerSq(reveal.x, reveal.y, reveal.w, reveal.h)

C18_Witness ==
    /\ reveal.endRadiusSq >= 0
    /\ reveal.x < 0 /\ reveal.y > reveal.h /\ reveal.w > 0
    /\ reveal.endRadiusSq = C18_DistSq(reveal.x, reveal.y, reveal.w, 0)
    /\ reveal.endRadiusSq > C18_DistSq(reveal.x, reveal.y, 0, reveal.h)

\* C19: in impl 2 the declared theme exposed to consumers is an element of
\* the exposed themes list, in every state and for both values of
\* enableSystem.  Stated for declared themes of type Theme: a stored string
\* outside the type is the case of C5 and is in no themes list either.
C19_DeclaredInThemes ==
    (cfg.impl = 2 /\ phase # "crashed" /\ theme \in Theme)
        => \E i \in 1 .. Len(Themes2) : Themes2[i] = theme

\* C20: in impl 1, once mounted, an ambient-change event leaves the exposed
\* systemTheme equal to the new ambient value whatever the declared theme,
\* and changes neither the declared theme nor the localStorage entry.
C20_SystemThemeTracksAmbient ==
    [][(cfg.impl = 1 /\ phase = "ready" /\ ambient' # ambient)
          => /\ systemTheme' = ambient'
             /\ theme' = theme
             /\ storage' = storage]_vars

C20_Witness ==
    /\ cfg.impl = 1 /\ phase = "ready"
    /\ last.op = "ambient" /\ prev.op = "setTheme"
    /\ theme \in ResolvedTheme /\ storage = theme
    /\ systemTheme = ambient /\ systemTheme # resolvedTheme

====
